---- MODULE Spec2Model ----
(***************************************************************************)
(* Model of the vec package: the containment classifier of                *)
(* art2polyarea.py (CombineSimplePolyAreas and its helpers) and the       *)
(* offset builder of offset.py (Offset.Build and its helpers).            *)
(*                                                                         *)
(* Polygons are numbered 0..n-1 as in the code.  The geometry library      *)
(* (geom.PointInside, geom.SignedArea) is not part of the modelled code:   *)
(* its results are the inputs of the classifier, drawn in Init.            *)
(***************************************************************************)
EXTENDS Integers, Sequences, FiniteSets, TLC

VARIABLES
  \* ---- inputs of CombineSimplePolyAreas
  n,          \* len(subpolyareas)
  lens,       \* lens[p]: number of vertices of polygon p
  areas,      \* areas[p]: geom.SignedArea of polygon p
  pin,        \* pin[<<a, b>>]: geom.PointInside of each vertex of b against a
  \* ---- locals of CombineSimplePolyAreas
  cls,        \* dict (i, j) -> (num_in, num_on)
  cont,       \* set of pairs (i, j): i contains j
  polyareas,  \* result list: indices of the boundary PolyAreas, in order
  holes,      \* holes[p]: the holes attached to PolyArea p by AddHole
  assigned,   \* set of assigned indices
  count,      \* number of completed rounds of the while loop
  i,          \* position of the for loop inside the round
  pc,         \* "start" | "for" | "done"
  whoops,     \* TRUE once the "didn't assign all" message was printed
  before,     \* history: the assigned set when the current round started
  \* ---- the Offset object Build is called on, and the call
  vmap,       \* shared coordinate table (python index v is vmap[v + 1])
  off,        \* the Offset: faces, lines, points, endtime, next
  target,     \* argument of Build
  newfaces,   \* local newfaces of the outermost Build when it ended
  calls,      \* number of Build invocations made
  bpc,        \* "ready" | "returned" | "TypeError" | "IndexError" | "RecursionError"
  \* ---- single calls of the other functions
  call,       \* the last call: its function, arguments and result
  prevcall,   \* the call before it
  mdl         \* the geom.Model the functions of model.py work on

cvars == <<n, lens, areas, pin, cls, cont, polyareas, holes, assigned, count,
           i, pc, whoops, before>>

ovars == <<vmap, off, target, newfaces, calls, bpc>>

xvars == <<call, prevcall, mdl>>

vars == <<cvars, ovars, xvars>>

\* ------------------------------------------------------------------ bounds

\* Number of polygons handed to CombineSimplePolyAreas under Spec.
NPolys == 3

\* Largest signed area drawn under SpecPair.
MaxArea == 2

\* The containment threshold 0.55 of _Contains, as the fraction 11/20.
ThreshNum == 11

ThreshDen == 20

\* ------------------------------------------------------- _ClassifyPathPairs

Polys(nn) == 0 .. (nn - 1)

Pairs(nn) == Polys(nn) \X Polys(nn)

\* The PointInside results of a polygon of len vertices of which nin are
\* strictly inside (1), non on the boundary (0) and the rest outside (-1).
PointInsideResults(nin, non, len) ==
  [v \in 1 .. len |-> IF v <= nin THEN 1 ELSE IF v <= nin + non THEN 0 ELSE -1]

RECURSIVE CountFrom(_, _, _, _)
CountFrom(ks, v, num_in, num_on) ==
  IF v > Len(ks) THEN <<num_in, num_on>>
  ELSE IF ks[v] > 0 THEN CountFrom(ks, v + 1, num_in + 1, num_on)
  ELSE IF ks[v] = 0 THEN CountFrom(ks, v + 1, num_in, num_on + 1)
  ELSE CountFrom(ks, v + 1, num_in, num_on)

\* ks: the PointInside result k of every vertex of path b against path a.
_ClassifyPathPairs(ks) == CountFrom(ks, 1, 0, 0)

\* ---------------------------------------------------------------- _Contains

\* float(x)/float(len) < 0.55, > 0.55: the quotient of two small integers
\* equals the double 0.55 exactly when x/len = 11/20, so the comparisons are
\* those of the fractions.
FracBelow(x, len) == x * ThreshDen < ThreshNum * len

FracAbove(x, len) == x * ThreshDen > ThreshNum * len

_Contains(a, b, ar, ln, cl) ==
  IF a = b THEN FALSE
  ELSE LET jinsidei == cl[<<a, b>>][1]
           joni == cl[<<a, b>>][2]
       IN IF jinsidei = 0 \/ joni = ln[b] \/ FracBelow(jinsidei, ln[b])
          THEN FALSE
          ELSE LET insidej == cl[<<b, a>>][1]
               IN IF FracAbove(insidej, ln[a])
                  THEN ar[a] > ar[b]
                  ELSE TRUE

\* -------------------------------------------------------------- _IsBoundary

_IsBoundary(a, nn, cn, asg) ==
  ~ \E j \in 0 .. (nn - 1) : j # a /\ j \notin asg /\ <<j, a>> \in cn

\* ---------------------------------------------------------------- _GetHoles

RECURSIVE GetHolesScan(_, _, _, _, _, _)
GetHolesScan(j, a, nn, cn, asg, isls) ==
  IF j >= nn THEN [isls |-> isls, assigned |-> asg]
  ELSE IF j \in asg THEN GetHolesScan(j + 1, a, nn, cn, asg, isls)
  ELSE IF <<a, j>> \in cn
       THEN LET directly ==
                  ~ \E k \in 0 .. (nn - 1) :
                       k # j /\ k \notin asg /\ <<a, k>> \in cn /\ <<k, j>> \in cn
            IN IF directly
               THEN GetHolesScan(j + 1, a, nn, cn, asg \cup {j}, Append(isls, j))
               ELSE GetHolesScan(j + 1, a, nn, cn, asg, isls)
       ELSE GetHolesScan(j + 1, a, nn, cn, asg, isls)

\* Mutant: the scan forgets assigned.add(j).
RECURSIVE GetHolesNoAdd(_, _, _, _, _, _)
GetHolesNoAdd(j, a, nn, cn, asg, isls) ==
  IF j >= nn THEN [isls |-> isls, assigned |-> asg]
  ELSE IF j \in asg THEN GetHolesNoAdd(j + 1, a, nn, cn, asg, isls)
  ELSE IF <<a, j>> \in cn
       THEN LET directly ==
                  ~ \E k \in 0 .. (nn - 1) :
                       k # j /\ k \notin asg /\ <<a, k>> \in cn /\ <<k, j>> \in cn
            IN IF directly
               THEN GetHolesNoAdd(j + 1, a, nn, cn, asg, Append(isls, j))
               ELSE GetHolesNoAdd(j + 1, a, nn, cn, asg, isls)
       ELSE GetHolesNoAdd(j + 1, a, nn, cn, asg, isls)

_GetHolesNoAdd(a, nn, cn, asg) == GetHolesNoAdd(0, a, nn, cn, asg, <<>>)

\* Returns the list of islands and the assigned set as the scan leaves it.
_GetHoles(a, nn, cn, asg) == GetHolesScan(0, a, nn, cn, asg, <<>>)

\* --------------------------------------------------- CombineSimplePolyAreas

\* Mutant: the round counter is tested one too late.
WhileCondLate(asg, cnt, nn) == Cardinality(asg) < nn /\ cnt <= nn

\* while len(assigned) < n and count < n
WhileCond(asg, cnt, nn) == Cardinality(asg) < nn /\ cnt < nn

\* No Offset exists while the classifier runs.
NoOffset ==
  /\ vmap = <<>>
  /\ off = <<>>
  /\ target = 0
  /\ newfaces = <<>>
  /\ calls = 0
  /\ bpc = "none"

\* No function was called and the Model is empty.
NoCall == [fn |-> "none", arg |-> <<>>, ret |-> <<>>]

NoModel == [faces |-> <<>>, colors |-> <<>>, points |-> 0]

NoCalls ==
  /\ call = NoCall
  /\ prevcall = NoCall
  /\ mdl = NoModel

\* The state a call starts in: the arguments and no locals yet.
CallWith(nn, ln, ar, counts) ==
  /\ n = nn
  /\ lens = ln
  /\ areas = ar
  /\ pin = [pr \in Pairs(nn) |->
              PointInsideResults(counts[pr][1], counts[pr][2], ln[pr[2]])]
  /\ cls = <<>>
  /\ cont = {}
  /\ polyareas = <<>>
  /\ holes = [p \in Polys(nn) |-> <<>>]
  /\ assigned = {}
  /\ count = 0
  /\ i = 0
  /\ pc = "start"
  /\ whoops = FALSE
  /\ before = {}
  /\ NoOffset
  /\ NoCalls

\* Lines 138-155: areas, lens, cls and cont are computed, the loop is entered.
Classify ==
  /\ pc = "start"
  /\ cls' = [pr \in Pairs(n) |-> _ClassifyPathPairs(pin[pr])]
  /\ cont' = {pr \in Pairs(n) :
                pr[1] # pr[2] /\ _Contains(pr[1], pr[2], areas, lens, cls')}
  /\ polyareas' = <<>>
  /\ assigned' = {}
  /\ count' = 0
  /\ i' = 0
  /\ before' = {}
  /\ IF WhileCond({}, 0, n)
     THEN pc' = "for" /\ whoops' = FALSE
     ELSE pc' = "done" /\ whoops' = (0 < n)
  /\ UNCHANGED <<n, lens, areas, pin, holes>>
  /\ UNCHANGED ovars
  /\ UNCHANGED xvars

\* Lines 158-159: i is assigned already.
SkipAssigned ==
  /\ pc = "for"
  /\ i < n
  /\ i \in assigned
  /\ i' = i + 1
  /\ UNCHANGED <<n, lens, areas, pin, cls, cont, polyareas, holes, assigned,
                 count, pc, whoops, before>>
  /\ UNCHANGED ovars
  /\ UNCHANGED xvars

\* Line 160, test false: some unassigned polygon contains i.
NotBoundary ==
  /\ pc = "for"
  /\ i < n
  /\ i \notin assigned
  /\ ~ _IsBoundary(i, n, cont, assigned)
  /\ i' = i + 1
  /\ UNCHANGED <<n, lens, areas, pin, cls, cont, polyareas, holes, assigned,
                 count, pc, whoops, before>>
  /\ UNCHANGED ovars
  /\ UNCHANGED xvars

\* Lines 160-167: i is a new boundary area and takes its holes.
PickBoundary ==
  /\ pc = "for"
  /\ i < n
  /\ i \notin assigned
  /\ _IsBoundary(i, n, cont, assigned)
  /\ LET r == _GetHoles(i, n, cont, assigned \cup {i})
     IN /\ assigned' = r.assigned
        /\ holes' = [holes EXCEPT ![i] = @ \o r.isls]
        /\ polyareas' = Append(polyareas, i)
  /\ i' = i + 1
  /\ UNCHANGED <<n, lens, areas, pin, cls, cont, count, pc, whoops, before>>
  /\ UNCHANGED ovars
  /\ UNCHANGED xvars

\* Line 168 and the loop test of line 156, true: another round starts.
NextRound ==
  /\ pc = "for"
  /\ i = n
  /\ WhileCond(assigned, count + 1, n)
  /\ count' = count + 1
  /\ i' = 0
  /\ before' = assigned
  /\ UNCHANGED <<n, lens, areas, pin, cls, cont, polyareas, holes, assigned,
                 pc, whoops>>
  /\ UNCHANGED ovars
  /\ UNCHANGED xvars

\* Line 168, the loop test of line 156, false, and lines 169-172.
Return ==
  /\ pc = "for"
  /\ i = n
  /\ ~ WhileCond(assigned, count + 1, n)
  /\ count' = count + 1
  /\ pc' = "done"
  /\ whoops' = (Cardinality(assigned) < n)
  /\ UNCHANGED <<n, lens, areas, pin, cls, cont, polyareas, holes, assigned,
                 i, before>>
  /\ UNCHANGED ovars
  /\ UNCHANGED xvars

CombineSimplePolyAreas ==
  \/ Classify
  \/ SkipAssigned
  \/ NotBoundary
  \/ PickBoundary
  \/ NextRound
  \/ Return

\* ------------------------------------------------------------ offset.py
\* Numbers are fixed-point: One is 1.0, so the quantum is 0.25.  The faces
\* drawn below have integer coordinates and right angles only, and the times
\* are multiples of 0.5, so every quantity the code computes on them is a
\* multiple of two quanta and a tolerance of one quantum decides each
\* comparison as the code's TOL does.  A spoke's dir and speed occur in the
\* code only through their product, kept here as the field vel.
One == 2 * 2

\* triquad.TOL
TOL == 1

\* bestt = 1e100: no event found.
NoEventTime == 1000000

\* Offset.endtime before Build: 1e8.
InitEndtime == 100000

\* Build's default target: 2e100.
DefaultTarget == 2000000

\* Python's recursion limit, in Build invocations.
RecursionLimit == 3

Abs(x) == IF x < 0 THEN 0 - x ELSE x

Sgn(x) == IF x < 0 THEN 0 - 1 ELSE IF x > 0 THEN 1 ELSE 0

\* x / y for y # 0 (exact on the values that occur).
Quot(x, y) == IF y < 0 THEN (0 - x) \div (0 - y) ELSE x \div y

Mul(x, y) == Quot(x * y, One)

Div(x, y) == Quot(x * One, y)

Sub2(a, b) == <<a[1] - b[1], a[2] - b[2]>>

Add2(a, b) == <<a[1] + b[1], a[2] + b[2]>>

Perp2(a, b) == Mul(a[1], b[2]) - Mul(a[2], b[1])

\* Normalized2 of an axis-parallel vector.
Normalized2(a) == <<Sgn(a[1]) * One, Sgn(a[2]) * One>>

\* Ccw(a, b, c, vmap): a, b, c turn counterclockwise.
Ccw(a, b, c, vm) ==
  Perp2(Sub2(vm[b + 1], vm[a + 1]), Sub2(vm[c + 1], vm[b + 1])) > TOL

\* Spoke.__init__ at a right angle: uavg = (uin + uout) / sqrt 2, dir is uavg
\* turned 90 degrees CCW and speed = 1 / sin 45 = sqrt 2, so
\* vel = speed * dir = (uin + uout) turned 90 degrees CCW.
Spoke(v, prev, nxt, face, index, vm) ==
  LET uin == Normalized2(Sub2(vm[v + 1], vm[prev + 1]))
      uout == Normalized2(Sub2(vm[nxt + 1], vm[v + 1]))
  IN [origin |-> v,
      face |-> face,
      index |-> index,
      vel |-> <<0 - (uin[2] + uout[2]), uin[1] + uout[1]>>,
      is_reflex |-> Ccw(nxt, v, prev, vm)]

\* Mutant of EndPoint: the end point drifts with the length of the table.
EndPointDrift(sp, t, vm) ==
  <<vm[sp.origin + 1][1] + Mul(sp.vel[1], t) + Len(vm),
    vm[sp.origin + 1][2] + Mul(sp.vel[2], t)>>

\* Spoke.EndPoint
EndPoint(sp, t, vm) ==
  LET pt == vm[sp.origin + 1]
  IN <<pt[1] + Mul(sp.vel[1], t), pt[2] + Mul(sp.vel[2], t)>>

OffsetEvent(isv, time, evertex, sp, other) ==
  [is_vertex_event |-> isv, time |-> time, event_vertex |-> evertex,
   spoke |-> <<sp.face, sp.index>>, other |-> <<other.face, other.index>>]

Max(x, y) == IF x > y THEN x ELSE y

\* Spoke.VertexEvent: <<>> for None, else <<event>>.  With w = a - c,
\* time_ab = si * |u| / speed = Perp2(other.vel, w) / Perp2(self.vel, other.vel)
\* and time_cd = Perp2(self.vel, w) / Perp2(self.vel, other.vel); the cross
\* product pp of the unit directions is half that of the velocities.
VertexEvent(sp, other, vm) ==
  LET a == vm[sp.origin + 1]
      c == vm[other.origin + 1]
      w == Sub2(a, c)
      pv == Perp2(sp.vel, other.vel)
      pp == Quot(pv, 2)
  IN IF Abs(pp) > TOL
     THEN LET time_ab == Div(Perp2(other.vel, w), pv)
              time_cd == Div(Perp2(sp.vel, w), pv)
          IN IF time_ab >= 0 /\ time_cd >= 0
             THEN << OffsetEvent(TRUE, Max(time_ab, time_cd),
                                 Add2(a, <<Mul(sp.vel[1], time_ab),
                                           Mul(sp.vel[2], time_ab)>>),
                                 sp, other) >>
             ELSE <<>>
     ELSE <<>>

\* Spoke.EdgeEvent, lines 153-179: (t, w) solving o + t*b = oo + w*pe, as
\* <<>> when there is no solution.
EdgeEventSolve(a, d, b, e, c, f) ==
  IF Abs(c) > TOL
  THEN LET dem == e - Div(Mul(f, b), c)
       IN IF Abs(dem) > TOL
          THEN LET t == Div(d - Div(Mul(f, a), c), dem)
               IN << <<t, Div(a - Mul(b, t), c)>> >>
          ELSE <<>>
  ELSE IF Abs(f) > TOL
  THEN LET dem == b - Div(Mul(c, e), f)
       IN IF Abs(dem) > TOL
          THEN LET t == Div(a - Div(Mul(c, d), f), dem)
               IN << <<t, Div(d - Mul(e, t), f)>> >>
          ELSE <<>>
  ELSE <<>>

\* Spoke.EdgeEvent, lines 180-215, given the solution (t, w).
EdgeEventAt(sp, other, othernext, o, oonext, pe, t, w) ==
  LET aa == o[1] - oonext[1]
      dd == o[2] - oonext[2]
      bb == othernext.vel[1] - sp.vel[1]
      ee == othernext.vel[2] - sp.vel[2]
      cc == 0 - pe[1]
      ff == 0 - pe[2]
      wws == IF Abs(cc) > TOL THEN <<Div(aa - Mul(bb, t), cc)>>
             ELSE IF Abs(ff) > TOL THEN <<Div(dd - Mul(ee, t), ff)>>
             ELSE <<>>
  IN IF t < 0 THEN <<>>
     ELSE IF w < 0 THEN <<>>
     ELSE IF wws = <<>> THEN <<>>
     ELSE IF wws[1] < 0 THEN <<>>
     ELSE << OffsetEvent(FALSE, t,
                         <<o[1] + Mul(sp.vel[1], t), o[2] + Mul(sp.vel[2], t)>>,
                         sp, other) >>

EdgeEventSolved(sp, other, othernext, o, oonext, pe, solved) ==
  IF solved = <<>> THEN <<>>
  ELSE EdgeEventAt(sp, other, othernext, o, oonext, pe,
                   solved[1][1], solved[1][2])

EdgeEventOn(sp, other, othernext, o, oo, oonext, pe) ==
  EdgeEventSolved(sp, other, othernext, o, oonext, pe,
    EdgeEventSolve(o[1] - oo[1], o[2] - oo[2],
                   other.vel[1] - sp.vel[1], other.vel[2] - sp.vel[2],
                   pe[1], pe[2]))

EdgeEventNext(sp, other, othernext, vm) ==
  EdgeEventOn(sp, other, othernext, vm[sp.origin + 1], vm[other.origin + 1],
              vm[othernext.origin + 1],
              Normalized2(Sub2(vm[othernext.origin + 1], vm[other.origin + 1])))

\* Spoke.EdgeEvent: <<>> for None, else <<event>>.
EdgeEvent(sp, other, faces, vm) ==
  EdgeEventNext(sp, other,
    faces[other.face + 1][((other.index + 1) % Len(faces[other.face + 1])) + 1],
    vm)

\* Offset.__init__, lines 290-303: the spokes of the CCW faces from index k
\* on; acc holds the faces, lines and points built so far.
RECURSIVE CcwFaces(_, _, _, _)
CcwFaces(ccwfaces, k, vm, acc) ==
  IF k > Len(ccwfaces) THEN acc
  ELSE LET f == ccwfaces[k]
           nf == Len(f)
           findex == Len(acc.faces)
       IN IF nf = 1
          THEN CcwFaces(ccwfaces, k + 1, vm,
                        [acc EXCEPT !.points = Append(@, f[1])])
          ELSE IF nf = 2
          THEN CcwFaces(ccwfaces, k + 1, vm,
                        [acc EXCEPT !.lines = Append(@, <<f[1], f[2]>>)])
          ELSE CcwFaces(ccwfaces, k + 1, vm,
                 [acc EXCEPT !.faces = Append(@,
                    [x \in 1 .. nf |->
                       Spoke(f[x], f[((x - 2) % nf) + 1], f[(x % nf) + 1],
                             findex, x - 1, vm)])])

\* Offset.__init__, lines 304-312: the spokes of the CW faces.
RECURSIVE CwFaces(_, _, _, _)
CwFaces(cwfaces, k, vm, acc) ==
  IF k > Len(cwfaces) THEN acc
  ELSE LET f == cwfaces[k]
           nf == Len(f)
           findex == Len(acc.faces)
       IN CwFaces(cwfaces, k + 1, vm,
            [acc EXCEPT !.faces = Append(@,
               [x \in 1 .. nf |->
                  Spoke(f[x], f[(x % nf) + 1], f[((x - 2) % nf) + 1],
                        findex, x - 1, vm)])])

\* Offset.__init__; next is <<>> for None, else <<the next Offset>>.
Offset(ccwfaces, cwfaces, vm) ==
  CwFaces(cwfaces, 1, vm,
    CcwFaces(ccwfaces, 1, vm,
      [faces |-> <<>>, lines |-> <<>>, points |-> <<>>,
       endtime |-> InitEndtime, next |-> <<>>]))

\* The spokes of all faces in the order of "for f in self.faces: for other in f".
RECURSIVE AllSpokes(_, _)
AllSpokes(faces, k) ==
  IF k > Len(faces) THEN <<>> ELSE faces[k] \o AllSpokes(faces, k + 1)

\* NextSpokeEvents, lines 352-362: best after edge event ev; best is
\* (bestt, bestv, beste) and nf is the length of the face last scanned.
EdgeBest(best, ev, nf) ==
  LET b1 == IF ev.time < best.bestt - TOL
            THEN [bestt |-> ev.time, bestv |-> <<>>, beste |-> <<>>]
            ELSE best
  IN IF Abs(ev.time - b1.bestt) < TOL
     THEN IF b1.beste = <<>>
          THEN [b1 EXCEPT !.beste = <<ev>>]
          ELSE IF ev.spoke # b1.beste[Len(b1.beste)].spoke
                  \/ ev.other[2] = (b1.beste[Len(b1.beste)].other[2] + 1) % nf
          THEN [b1 EXCEPT !.beste = Append(@, ev)]
          ELSE b1
     ELSE b1

EdgeBestOf(best, evs, nf) ==
  IF evs = <<>> THEN best ELSE EdgeBest(best, evs[1], nf)

\* NextSpokeEvents, lines 345-362: the scan of the advancing edges from the
\* k-th spoke on.
RECURSIVE EdgeScan(_, _, _, _, _, _)
EdgeScan(sp, prev_spoke, others, k, o, best) ==
  IF k > Len(others) THEN best
  ELSE IF <<others[k].face, others[k].index>> = <<sp.face, sp.index>>
          \/ <<others[k].face, others[k].index>>
               = <<prev_spoke.face, prev_spoke.index>>
  THEN EdgeScan(sp, prev_spoke, others, k + 1, o, best)
  ELSE EdgeScan(sp, prev_spoke, others, k + 1, o,
                EdgeBestOf(best, EdgeEvent(sp, others[k], o.faces, o.vmap),
                           Len(o.faces[others[k].face + 1])))

\* Mutant of SpokeEventsOn: the edges are scanned for every spoke.
SpokeEventsAlways(o, sp, face, best0) ==
  EdgeScan(sp, face[((sp.index - 1) % Len(face)) + 1],
           AllSpokes(o.faces, 1), 1, o, best0)

\* NextSpokeEvents, lines 334-344, given the vertex event ev.
VertexBest(ev) ==
  IF ev # <<>>
  THEN [bestt |-> ev[1].time, bestv |-> ev, beste |-> <<>>]
  ELSE [bestt |-> NoEventTime, bestv |-> <<>>, beste |-> <<>>]

SpokeEventsOn(o, sp, face, best0) ==
  IF sp.is_reflex
  THEN EdgeScan(sp, face[((sp.index - 1) % Len(face)) + 1],
                AllSpokes(o.faces, 1), 1, o, best0)
  ELSE best0

\* Offset.NextSpokeEvents; o is the Offset with its vmap.
NextSpokeEvents(o, sp) ==
  SpokeEventsOn(o, sp, o.faces[sp.face + 1],
    VertexBest(VertexEvent(sp,
      o.faces[sp.face + 1][((sp.index + 1) % Len(o.faces[sp.face + 1])) + 1],
      o.vmap)))

\* Build, lines 376-389: best after the events r of one spoke.
SpokeBest(best, r) ==
  LET b1 == IF r.bestt < best.bestt - TOL
            THEN [bestt |-> r.bestt, bestv |-> <<>>, beste |-> <<>>]
            ELSE best
  IN IF Abs(r.bestt - b1.bestt) < TOL
     THEN [b1 EXCEPT !.bestv = @ \o r.bestv, !.beste = @ \o r.beste]
     ELSE b1

\* Build, lines 373-389: the scan of all spokes from the k-th on.
RECURSIVE BestEvents(_, _, _, _)
BestEvents(o, spokes, k, best) ==
  IF k > Len(spokes) THEN best
  ELSE BestEvents(o, spokes, k + 1,
                  SpokeBest(best, NextSpokeEvents(o, spokes[k])))

ApproxEqPts(a, b) == Abs(a[1] - b[1]) < TOL /\ Abs(a[2] - b[2]) < TOL

\* FaceAtSpokeEnds, lines 437-444: newfacevs after end point v of spoke k.
MergeEnd(newfacevs, v, last) ==
  IF newfacevs # <<>>
  THEN IF ~ ApproxEqPts(v, newfacevs[Len(newfacevs)])
          /\ ~ (last /\ ApproxEqPts(v, newfacevs[1]))
       THEN Append(newfacevs, v)
       ELSE newfacevs
  ELSE Append(newfacevs, v)

\* FaceAtSpokeEnds, lines 435-444: the merged end points from spoke k on.
RECURSIVE MergeEnds(_, _, _, _, _)
MergeEnds(f, t, vm, k, newfacevs) ==
  IF k > Len(f) THEN newfacevs
  ELSE MergeEnds(f, t, vm, k + 1,
                 MergeEnd(newfacevs, EndPoint(f[k], t, vm), k = Len(f)))

\* FaceAtSpokeEnds, lines 445-450: the points join the vmap.
FaceOfEnds(newfacevs, vm) ==
  [newface |-> [x \in 1 .. Len(newfacevs) |-> Len(vm) + x - 1],
   vmap |-> vm \o newfacevs]

\* Offset.FaceAtSpokeEnds: the new face (vertex indices) and the extended vmap.
FaceAtSpokeEnds(f, t, vm) == FaceOfEnds(MergeEnds(f, t, vm, 1, <<>>), vm)

\* An element of a python list that is an int, and one that is a list.
IntItem(v) == [islist |-> FALSE, v |-> v, vs |-> <<>>]

ListItem(vs) == [islist |-> TRUE, v |-> 0, vs |-> vs]

\* Mutant of Extended: ans.append(newf), the face as one element.
Appended(ans, newf) == Append(ans, ListItem(newf))

\* What "ans += newf" adds to ans: the vertex indices of newf, one by one.
Extended(ans, newf) == ans \o [x \in 1 .. Len(newf) |-> IntItem(newf[x])]

\* Offset.MakeNewFaces from face k on: ans and the extended vmap; r is the
\* result of FaceAtSpokeEnds on face k.
RECURSIVE MakeNewFacesFrom(_, _, _, _, _)
RECURSIVE MakeNewFacesWith(_, _, _, _, _)
MakeNewFacesWith(faces, t, k, ans, r) ==
  MakeNewFacesFrom(faces, t, k + 1, Extended(ans, r.newface), r.vmap)

MakeNewFacesFrom(faces, t, k, ans, vm) ==
  IF k > Len(faces) THEN [ans |-> ans, vmap |-> vm]
  ELSE MakeNewFacesWith(faces, t, k, ans, FaceAtSpokeEnds(faces[k], t, vm))

MakeNewFaces(o, t) == MakeNewFacesFrom(o.faces, t, 1, <<>>, o.vmap)

\* Offset.SplitFace: the returned list, or the exception raised.
SplitFace(nfs, ev) ==
  LET findex == ev.spoke[1]
  IN IF findex >= Len(nfs) THEN [status |-> "IndexError", ans |-> <<>>]
     ELSE IF ~ nfs[findex + 1].islist THEN [status |-> "TypeError", ans |-> <<>>]
     ELSE [status |-> "ok", ans |-> <<>>]

\* self as the methods read it: the faces and the shared vmap.
Self(o, vm) == [faces |-> o.faces, vmap |-> vm]

\* Build, lines 406-411: one edge event ev, r being MakeNewFaces' result and
\* sf SplitFace's on the extended list.
RECURSIVE EdgeEvents(_, _, _, _, _, _)
EdgeEventSplit(o, t, ee, k, extended, vm, sf) ==
  IF sf.status # "ok"
  THEN [status |-> sf.status, newfaces |-> extended, vmap |-> vm]
  ELSE EdgeEvents(o, t, ee, k + 1, sf.ans, vm)

EdgeEventFaces(o, t, ee, k, extended, vm) ==
  IF ee[k].spoke[1] = ee[k].other[1]
  THEN EdgeEventSplit(o, t, ee, k, extended, vm, SplitFace(extended, ee[k]))
  ELSE EdgeEvents(o, t, ee, k + 1, extended, vm)

EdgeEventMade(o, t, ee, k, nfs, r) ==
  EdgeEventFaces(o, t, ee, k, nfs \o r.ans, r.vmap)

\* Build, lines 405-411: the loop over the edge events from the k-th on.
EdgeEvents(o, t, ee, k, nfs, vm) ==
  IF k > Len(ee) THEN [status |-> "ok", newfaces |-> nfs, vmap |-> vm]
  ELSE EdgeEventMade(o, t, ee, k, nfs, MakeNewFaces(Self(o, vm), t))

\* Build, lines 413-417: "TypeError" when len() is taken of an int, else
\* whether some face has at least three vertices.
RECURSIVE AnyFaces(_, _)
AnyFaces(nfs, k) ==
  IF k > Len(nfs) THEN "False"
  ELSE IF ~ nfs[k].islist THEN "TypeError"
  ELSE IF Len(nfs[k].vs) >= 3 THEN "True"
  ELSE AnyFaces(nfs, k + 1)

\* Mutant of TargetFirst: the comparison reversed.
TargetLast(tgt, bestt) == tgt > bestt

\* Line 393: the target time comes before the first event.
TargetFirst(tgt, bestt) == tgt < bestt

\* Lines 394-403: all faces advance to time t.
Advanced(t, r) ==
  [endtime |-> t, status |-> "ok", newfaces |-> r.ans, vmap |-> r.vmap]

\* Lines 404-411: the edge events at time t were processed with result r.
Split(t, r) ==
  [endtime |-> t, status |-> r.status, newfaces |-> r.newfaces, vmap |-> r.vmap]

\* Lines 390-411: endtime and the new faces, best being the first events.
Advance(o, vm, tgt, best) ==
  IF TargetFirst(tgt, best.bestt)
  THEN Advanced(tgt, MakeNewFaces(Self(o, vm), tgt))
  ELSE IF best.bestv # <<>> /\ best.beste = <<>>
  THEN Advanced(best.bestt, MakeNewFaces(Self(o, vm), best.bestt))
  ELSE Split(best.bestt, EdgeEvents(o, best.bestt, best.beste, 1, <<>>, vm))

\* The events of lines 373-389 for Offset o.
FirstEvents(o, vm) ==
  BestEvents(Self(o, vm), AllSpokes(o.faces, 1), 1,
             [bestt |-> NoEventTime, bestv |-> <<>>, beste |-> <<>>])

\* How an invocation of Build ends: the Offset, the vmap, the local newfaces,
\* "returned" or the exception, and the number of invocations made.
Ended(o, adv, st, depth) ==
  [off |-> o, vmap |-> adv.vmap, status |-> st, calls |-> depth,
   newfaces |-> adv.newfaces]

RECURSIVE BuildCall(_, _, _, _)

\* Lines 420-421: self.next is the new Offset and self.Build(nexttarget) runs.
BuildNext(o, adv, nexttarget, depth) ==
  IF depth >= RecursionLimit
  THEN Ended(o, adv, "RecursionError", depth + 1)
  ELSE [BuildCall(o, adv.vmap, nexttarget, depth + 1)
          EXCEPT !.newfaces = adv.newfaces]

\* Lines 412-421, adv being the result of lines 373-411.
BuildEnd(o, tgt, depth, adv, anyfaces) ==
  IF adv.status # "ok"
  THEN Ended([o EXCEPT !.endtime = adv.endtime], adv, adv.status, depth)
  ELSE IF anyfaces = "TypeError"
  THEN Ended([o EXCEPT !.endtime = adv.endtime], adv, "TypeError", depth)
  ELSE IF anyfaces = "True" /\ tgt - adv.endtime > TOL
  THEN IF \E x \in 1 .. Len(adv.newfaces) : ~ adv.newfaces[x].islist
       THEN Ended([o EXCEPT !.endtime = adv.endtime], adv, "TypeError", depth)
       ELSE BuildNext([o EXCEPT !.endtime = adv.endtime,
                                !.next = << Offset([x \in 1 .. Len(adv.newfaces)
                                                      |-> adv.newfaces[x].vs],
                                                   <<>>, adv.vmap) >>],
                      adv, tgt - adv.endtime, depth)
  ELSE Ended([o EXCEPT !.endtime = adv.endtime], adv, "returned", depth)

BuildAdvanced(o, tgt, depth, adv) ==
  BuildEnd(o, tgt, depth, adv,
           IF adv.status = "ok" THEN AnyFaces(adv.newfaces, 1) ELSE "False")

\* Offset.Build, invocation number depth on Offset o.
BuildCall(o, vm, tgt, depth) ==
  BuildAdvanced(o, tgt, depth, Advance(o, vm, tgt, FirstEvents(o, vm)))

\* The result of off.Build(target).
Built == BuildCall(off, vmap, target, 1)

\* The action's update of the offset variables from Build's result r.
BuildTo(r) ==
  /\ off' = r.off
  /\ vmap' = r.vmap
  /\ newfaces' = r.newfaces
  /\ calls' = r.calls
  /\ bpc' = r.status

\* off.Build(target)
Build ==
  /\ bpc = "ready"
  /\ \E r \in {Built} : BuildTo(r)
  /\ UNCHANGED target
  /\ UNCHANGED cvars
  /\ UNCHANGED xvars

\* ----- the offsets Build is called on

\* Largest side of a rectangle face.
MaxSide == 2

\* Largest number of faces of an Offset.
MaxFaces == 2

\* Largest target time, in halves.
MaxTarget == 4

\* Distance between the faces of an Offset: wider than any face.
Shift == 2 * (MaxSide + 3)

Rect(w, h) == << <<0, 0>>, <<w, 0>>, <<w, h>>, <<0, h>> >>

LShape(a) ==
  << <<0, 0>>, <<2 * a, 0>>, <<2 * a, a>>, <<a, a>>, <<a, 2 * a>>, <<0, 2 * a>> >>

Segment == << <<0, 0>>, <<1, 0>> >>

Shapes ==
  {Rect(w, h) : w \in 1 .. MaxSide, h \in 1 .. MaxSide} \cup {LShape(1), Segment}

\* The coordinates of shape number k of an Offset, in fixed point.
Placed(shape, k) ==
  [x \in 1 .. Len(shape) |->
     <<(shape[x][1] + (k - 1) * Shift) * One, shape[x][2] * One>>]

RECURSIVE VmapOf(_, _)
VmapOf(shapes, k) ==
  IF k > Len(shapes) THEN <<>>
  ELSE Placed(shapes[k], k) \o VmapOf(shapes, k + 1)

RECURSIVE FacesOf(_, _, _)
FacesOf(shapes, k, base) ==
  IF k > Len(shapes) THEN <<>>
  ELSE << [x \in 1 .. Len(shapes[k]) |-> base + x - 1] >>
       \o FacesOf(shapes, k + 1, base + Len(shapes[k]))

Targets == {k * (One \div 2) : k \in 0 .. MaxTarget} \cup {DefaultTarget}

NoClassifier ==
  /\ n = 0
  /\ lens = <<>>
  /\ areas = <<>>
  /\ pin = <<>>
  /\ cls = <<>>
  /\ cont = {}
  /\ polyareas = <<>>
  /\ holes = <<>>
  /\ assigned = {}
  /\ count = 0
  /\ i = 0
  /\ pc = "none"
  /\ whoops = FALSE
  /\ before = {}

\* Degenerate input: the unit square set in the notch of the L, so that the
\* L's reflex vertex lies on the square.
Notched ==
  [x \in 1 .. Len(LShape(1)) |-> <<LShape(1)[x][1] * One, LShape(1)[x][2] * One>>]
  \o [x \in 1 .. Len(Rect(1, 1)) |->
        <<(Rect(1, 1)[x][1] + 1) * One, (Rect(1, 1)[x][2] + 1) * One>>]

\* The same with the square's vertex list started at its last vertex, so that
\* the two edges of the square at the reflex vertex follow each other.
NotchedLate ==
  SubSeq(Notched, 1, Len(LShape(1)))
  \o << Notched[Len(Notched)] >>
  \o SubSeq(Notched, Len(LShape(1)) + 1, Len(Notched) - 1)

\* An Offset of one to MaxFaces CCW faces, side by side, or of the notched L
\* in its two vertex orders, and a target.
InitOffset ==
  /\ NoClassifier
  /\ NoCalls
  /\ \/ \E k \in 1 .. MaxFaces : \E shapes \in [1 .. k -> Shapes] :
          /\ vmap = VmapOf(shapes, 1)
          /\ off = Offset(FacesOf(shapes, 1, 0), <<>>, vmap)
     \/ /\ vmap = Notched
        /\ off = Offset(FacesOf(<<LShape(1), Rect(1, 1)>>, 1, 0), <<>>, vmap)
     \/ /\ vmap = NotchedLate
        /\ off = Offset(FacesOf(<<LShape(1), Rect(1, 1)>>, 1, 0), <<>>, vmap)
  /\ target \in Targets
  /\ newfaces = <<>>
  /\ calls = 0
  /\ bpc = "ready"

NextOffset == Build

SpecOffset == InitOffset /\ [][NextOffset]_vars

\* ----- single calls of the methods of an Offset

\* The vertex list of a face started one vertex later.
Rotated(shape) == [x \in 1 .. Len(shape) |-> shape[(x % Len(shape)) + 1]]

\* The Offsets the methods are called on: one face or two.
CallShapes == Shapes \cup {Rotated(LShape(1))}

CallConfigs ==
  {<<sh>> : sh \in CallShapes} \cup {<<sh, LShape(1)>> : sh \in CallShapes}

\* The times the methods are called with.
CallTimes == {k * (One \div 2) : k \in 0 .. MaxTarget}

InitCalls ==
  /\ NoClassifier
  /\ NoCalls
  /\ \E shapes \in CallConfigs :
       /\ vmap = VmapOf(shapes, 1)
       /\ off = Offset(FacesOf(shapes, 1, 0), <<>>, vmap)
  /\ target = 0
  /\ newfaces = <<>>
  /\ calls = 0
  /\ bpc = "none"

\* The call of function fn on arg returned ret.
Called(fn, arg, ret) ==
  /\ call' = [fn |-> fn, arg |-> arg, ret |-> ret]
  /\ prevcall' = call
  /\ UNCHANGED <<off, target, newfaces, calls, bpc, mdl>>
  /\ UNCHANGED cvars

\* off.FaceAtSpokeEnds(off.faces[fi], t), as a first call or after another
\* call of FaceAtSpokeEnds.
CallFaceAtSpokeEnds ==
  /\ bpc = "none"
  /\ call.fn \in {"none", "FaceAtSpokeEnds"}
  /\ prevcall.fn = "none"
  /\ \E fi \in 1 .. Len(off.faces) : \E t \in CallTimes :
       \E r \in {FaceAtSpokeEnds(off.faces[fi], t, vmap)} :
         /\ vmap' = r.vmap
         /\ Called("FaceAtSpokeEnds", <<fi - 1, t>>, r.newface)

\* off.MakeNewFaces(t)
CallMakeNewFaces ==
  /\ bpc = "none"
  /\ call.fn = "none"
  /\ \E t \in CallTimes : \E r \in {MakeNewFaces(Self(off, vmap), t)} :
       /\ vmap' = r.vmap
       /\ Called("MakeNewFaces", <<t>>, r.ans)

\* off.NextSpokeEvents(off.faces[fi][si])
CallNextSpokeEvents ==
  /\ bpc = "none"
  /\ call.fn = "none"
  /\ \E fi \in 1 .. Len(off.faces) : \E si \in 1 .. Len(off.faces[fi]) :
       \E r \in {NextSpokeEvents(Self(off, vmap), off.faces[fi][si])} :
         /\ vmap' = vmap
         /\ Called("NextSpokeEvents", <<fi - 1, si - 1>>, r)

\* The faces of the Offset as a list of vertex cycles.
FaceCycles(o) ==
  [x \in 1 .. Len(o.faces) |->
     ListItem([y \in 1 .. Len(o.faces[x]) |-> o.faces[x][y].origin])]

\* The first edge events of the Offset.
FirstEdgeEvents(o, vm) ==
  {FirstEvents(o, vm).beste[x] : x \in 1 .. Len(FirstEvents(o, vm).beste)}

\* off.SplitFace(newfaces, ev) on a list of faces and an edge event within
\* one face.
CallSplitFace ==
  /\ bpc = "none"
  /\ call.fn = "none"
  /\ \E ev \in FirstEdgeEvents(off, vmap) :
       /\ ev.spoke[1] = ev.other[1]
       /\ vmap' = vmap
       /\ Called("SplitFace", <<FaceCycles(off), ev>>,
                 SplitFace(FaceCycles(off), ev))

NextCalls ==
  \/ CallFaceAtSpokeEnds
  \/ CallMakeNewFaces
  \/ CallNextSpokeEvents
  \/ CallSplitFace

SpecCalls == InitCalls /\ [][NextCalls]_vars

\* ------------------------------------------------------------- model.py
\* A geom.Model is kept as its list of faces, its list of colors and the
\* number of its points; z coordinates are not kept.  The results of
\* triquad.QuadrangulateFaceWithHoles and of Points.AddPoint are inputs: a
\* list of faces, and the next free index.

\* Python's attribute lookup on an object kept as a record.
Attr(o, name) == name \in DOMAIN o

\* Mutant of ColorsFor: one color for the whole list.
ColorOnce(color, qpa) == <<color>>

\* [color] * len(qpa)
ColorsFor(color, qpa) == [x \in 1 .. Len(qpa) |-> color]

\* faces.extend(qpa); colors.extend([color] * len(qpa))
Extend(m, qpa, color) ==
  [m EXCEPT !.faces = @ \o qpa, !.colors = @ \o ColorsFor(color, qpa)]

\* BevelPolyAreaInModel, lines 159-160: offset.Offset(polyarea, 0.0) lacks the
\* third argument of Offset.__init__ (offset.py line 271).
BevelPolyAreaInModel(m) == [status |-> "TypeError", mdl |-> m, ret |-> <<>>]

\* PolyAreaToModel; qpa is what QuadrangulateFaceWithHoles returns.
PolyAreaToModel(m, pa, bevel_amount, quadrangulate, qpa) ==
  IF bevel_amount > 0 THEN BevelPolyAreaInModel(m)
  ELSE IF quadrangulate
  THEN IF Len(pa.poly) = 0 THEN [status |-> "ok", mdl |-> m, ret |-> <<>>]
       ELSE [status |-> "ok", mdl |-> Extend(m, qpa, pa.color), ret |-> <<>>]
  ELSE [status |-> "ok", mdl |-> Extend(m, <<pa.poly>>, pa.color), ret |-> <<>>]

\* _ExtrudePoly, line 123: the vertex after vertex number x of poly.
NextVertex(poly, x, isccw) ==
  IF isccw THEN poly[(x % Len(poly)) + 1] ELSE poly[((x - 2) % Len(poly)) + 1]

\* _ExtrudePoly, lines 126-131: the side face of vertex number x of poly,
\* base being the number of points before the loop.
SideFace(poly, x, base, isccw) ==
  IF isccw
  THEN <<poly[x], base + 2 * (x - 1), base + 2 * (x - 1) + 1,
         NextVertex(poly, x, isccw)>>
  ELSE <<poly[x], NextVertex(poly, x, isccw), base + 2 * (x - 1) + 1,
         base + 2 * (x - 1)>>

\* _ExtrudePoly, lines 124-125: the vertices of poly, from x on, whose
\* points.pos[v] or points.pos[vnext] is out of range.
NoPoint(poly, base, isccw) ==
  {x \in 1 .. Len(poly) :
     \/ poly[x] >= base + 2 * (x - 1)
     \/ NextVertex(poly, x, isccw) >= base + 2 * (x - 1)}

\* The loop of _ExtrudePoly ran for the vertices before number stop.
Extruded(m, poly, color, isccw, stop) ==
  [status |-> IF stop > Len(poly) THEN "ok" ELSE "IndexError",
   mdl |-> [Extend(m, [x \in 1 .. stop - 1 |->
                         SideFace(poly, x, m.points, isccw)], color)
              EXCEPT !.points = @ + 2 * (stop - 1)],
   ret |-> IF stop > Len(poly)
           THEN << [x \in 1 .. Len(poly) |-> m.points + 2 * (x - 1)] >>
           ELSE <<>>]

\* _ExtrudePoly; ret is <<>> for None, else <<extruded_poly>>.
_ExtrudePoly(m, poly, color, isccw) ==
  IF Len(poly) < 2 THEN [status |-> "ok", mdl |-> m, ret |-> <<>>]
  ELSE IF NoPoint(poly, m.points, isccw) = {}
  THEN Extruded(m, poly, color, isccw, Len(poly) + 1)
  ELSE Extruded(m, poly, color, isccw,
                CHOOSE x \in NoPoint(poly, m.points, isccw) :
                  \A y \in NoPoint(poly, m.points, isccw) : x <= y)

\* AddOffsetFacesToModel, lines 201-212: the face between a spoke and the
\* next one.
ModelFace(spoke, nextspoke) ==
  IF nextspoke.dest = spoke.dest
  THEN <<spoke.origin, nextspoke.origin, nextspoke.dest>>
  ELSE <<spoke.origin, nextspoke.origin, nextspoke.dest, spoke.dest>>

\* Lines 197-214: the faces of the spoke faces of one generation from face k
\* on.
RECURSIVE FacesOfSpokes(_, _)
FacesOfSpokes(facespokes, k) ==
  IF k > Len(facespokes) THEN <<>>
  ELSE [x \in 1 .. Len(facespokes[k]) |->
          ModelFace(facespokes[k][x],
                    facespokes[k][(x % Len(facespokes[k])) + 1])]
       \o FacesOfSpokes(facespokes, k + 1)

\* Lines 194-214: what generation o adds to the Model.
Emitted(o) == IF o.endtime # 0 THEN FacesOfSpokes(o.facespokes, 1) ELSE <<>>

\* Lines 193-219: the loop from generation o with stack ostack.
RECURSIVE WalkFrom(_, _, _, _)
WalkStack(stack, m, color) ==
  IF stack = <<>> THEN m
  ELSE WalkFrom(stack[Len(stack)], SubSeq(stack, 1, Len(stack) - 1), m, color)

WalkFrom(o, ostack, m, color) ==
  WalkStack(ostack \o o.inneroffsets, Extend(m, Emitted(o), color), color)

\* AddOffsetFacesToModel: line 189 reads off.polyarea.
AddOffsetFacesToModel(m, o, color) ==
  IF ~ Attr(o, "polyarea")
  THEN [status |-> "AttributeError", mdl |-> m, ret |-> <<>>]
  ELSE [status |-> "ok",
        mdl |-> WalkFrom(o, <<>>, [m EXCEPT !.points = o.polyarea.points], color),
        ret |-> <<>>]

\* ----- the calls made on the Model

Colors == {"red", "blue"}

Polygons == {<<>>, <<0>>, <<0, 1, 2>>, <<0, 1, 2, 3>>}

QuadResults == {<<>>, << <<0, 1, 2>> >>, << <<0, 1, 2>>, <<0, 2, 3>> >>}

\* An object with the attributes AddOffsetFacesToModel reads.
Generation(endtime, timesofar, facespokes, inneroffsets) ==
  [polyarea |-> [points |-> 2 * 2 * 2], endtime |-> endtime,
   timesofar |-> timesofar, facespokes |-> facespokes,
   inneroffsets |-> inneroffsets]

\* A face of spokes from the vertex cycle origins to the cycle dests.
SpokeFace(origins, dests) ==
  [x \in 1 .. Len(origins) |-> [origin |-> origins[x], dest |-> dests[x]]]

\* A square closing to a point, a rectangle closing to a segment, a square
\* shrinking to a square, and generations made of them.
ToPoint(t) == Generation(t, 0, <<SpokeFace(<<0, 1, 2, 3>>, <<4, 4, 4, 4>>)>>, <<>>)

ToSegment(t) == Generation(t, 0, <<SpokeFace(<<0, 1, 2, 3>>, <<4, 4, 5, 5>>)>>, <<>>)

Shrunk(t, inner) ==
  Generation(t, 0, <<SpokeFace(<<0, 1, 2, 3>>, <<4, 5, 6, 7>>)>>, inner)

Inner(t) == Generation(t, 1, <<SpokeFace(<<4, 5, 6, 7>>, <<7, 7, 7, 7>>)>>, <<>>)

Generations ==
  {ToPoint(0), ToPoint(1), ToSegment(1), Shrunk(1, <<>>), Shrunk(1, <<Inner(1)>>),
   Shrunk(1, <<Inner(0)>>), Shrunk(0, <<Inner(1), ToSegment(1)>>),
   Shrunk(1, <<Shrunk(1, <<Inner(1)>>), Inner(1)>>)}

\* The Offsets of offset.py handed to AddOffsetFacesToModel: the unit square
\* before Build, and as Build leaves it.
UnitSquareOffset ==
  Offset(FacesOf(<<Rect(1, 1)>>, 1, 0), <<>>, Placed(Rect(1, 1), 1))

BuiltOffsets ==
  {UnitSquareOffset,
   BuildCall(UnitSquareOffset, Placed(Rect(1, 1), 1), One, 1).off}

\* The number of points of the Model before the calls.
ModelPoints == 4

InitModel ==
  /\ NoClassifier
  /\ NoOffset
  /\ call = NoCall
  /\ prevcall = NoCall
  /\ mdl \in {NoModel, [NoModel EXCEPT !.points = ModelPoints]}

\* The call of fn on arg ended as r says.
ModelCalled(fn, arg, r) ==
  /\ mdl' = r.mdl
  /\ call' = [fn |-> fn, arg |-> arg, ret |-> [status |-> r.status, ret |-> r.ret]]
  /\ prevcall' = call
  /\ UNCHANGED ovars
  /\ UNCHANGED cvars

CallPolyAreaToModel ==
  /\ prevcall.fn = "none"
  /\ \E poly \in Polygons : \E color \in Colors : \E bevel_amount \in {0, 1} :
       \E quadrangulate \in BOOLEAN : \E qpa \in QuadResults :
         \E r \in {PolyAreaToModel(mdl, [poly |-> poly, color |-> color],
                                   bevel_amount, quadrangulate, qpa)} :
           ModelCalled("PolyAreaToModel",
                       <<poly, color, bevel_amount, quadrangulate, qpa>>, r)

Call_ExtrudePoly ==
  /\ prevcall.fn = "none"
  /\ \E poly \in Polygons : \E color \in Colors : \E isccw \in BOOLEAN :
       \E r \in {_ExtrudePoly(mdl, poly, color, isccw)} :
         ModelCalled("_ExtrudePoly", <<poly, color, isccw>>, r)

CallAddOffsetFacesToModel ==
  /\ prevcall.fn = "none"
  /\ \E o \in Generations \cup BuiltOffsets : \E color \in Colors :
       \E r \in {AddOffsetFacesToModel(mdl, o, color)} :
         ModelCalled("AddOffsetFacesToModel", <<o, color>>, r)

NextModel ==
  \/ CallPolyAreaToModel
  \/ Call_ExtrudePoly
  \/ CallAddOffsetFacesToModel

SpecModel == InitModel /\ [][NextModel]_vars

\* ----- RegionToPolyAreas, up to the boundary edges

\* Python's "x in s" for a list s.
In(x, s) == \E y \in 1 .. Len(s) : s[y] = x

\* Lines 277-284: vertex v of a face with the edge from it; v stays bound.
ScanEdge(st, v, edge) ==
  IF In(edge, st.vtoedges[v]) THEN [st EXCEPT !.v = <<v>>]
  ELSE [edges |-> Append(st.edges, edge),
        vtoedges |-> [st.vtoedges EXCEPT ![v] = Append(@, edge)],
        v |-> <<v>>]

\* Lines 275-284: the loops from vertex number x of face number k on.
RECURSIVE ScanFaces(_, _, _, _)
ScanFaces(faces, k, x, st) ==
  IF k > Len(faces) THEN st
  ELSE IF x > Len(faces[k]) THEN ScanFaces(faces, k + 1, 1, st)
  ELSE ScanFaces(faces, k, x + 1,
                 ScanEdge(st, faces[k][x],
                          <<faces[k][x], faces[k][(x % Len(faces[k])) + 1]>>))

\* Lines 286-291: the edges kept as boundary edges; the test of line 290
\* reads vtoedges[v] with v as the loops of lines 275-284 left it.
BoundaryEdges(st) ==
  {edge \in {st.edges[y] : y \in 1 .. Len(st.edges)} :
     ~ In(<<edge[2], edge[1]>>, st.vtoedges[st.v[1]])}

\* Line 292: the boundary edges starting at vs, in the order of edges.
BoundaryFrom(st, vs) ==
  SelectSeq(st.edges, LAMBDA edge : edge[1] = vs /\ edge \in BoundaryEdges(st))

\* RegionToPolyAreas at line 292, nv being len(points.pos).
RegionEdges(st, nv) ==
  [status |-> "ok", edges |-> st.edges, boundary_edges |-> BoundaryEdges(st),
   vtobedges |-> [vs \in 0 .. nv - 1 |-> BoundaryFrom(st, vs)]]

RegionToPolyAreas(faces, nv) ==
  RegionEdges(ScanFaces(faces, 1, 1,
                        [edges |-> <<>>, vtoedges |-> [vs \in 0 .. nv - 1 |-> <<>>],
                         v |-> <<>>]), nv)

\* ----- the regions RegionToPolyAreas is called on

\* Number of points of the region's model.
RegionPoints == 4

\* Largest number of faces of a region.
RegionFaces == 2

\* Triangles on the points.
Triangles ==
  {<<a, b, c>> : <<a, b, c>> \in
     {t \in (0 .. RegionPoints - 1) \X (0 .. RegionPoints - 1) \X (0 .. RegionPoints - 1) :
        t[1] # t[2] /\ t[2] # t[3] /\ t[1] # t[3]}}

Regions == UNION {[1 .. k -> Triangles] : k \in 0 .. RegionFaces}

InitRegion ==
  /\ NoClassifier
  /\ NoOffset
  /\ NoCalls

CallRegionToPolyAreas ==
  /\ call.fn = "none"
  /\ \E faces \in Regions :
       Called("RegionToPolyAreas", <<faces>>, RegionToPolyAreas(faces, RegionPoints))
  /\ UNCHANGED vmap

NextRegion == CallRegionToPolyAreas

SpecRegion == InitRegion /\ [][NextRegion]_vars

\* ------------------------------------------------------------ specifications

\* What PointInside can say of one polygon against another, as
\* <<vertices of q inside p, on p>>, <<vertices of p inside q, on q>>, for
\* p < q, both of ThreshDen vertices: disjoint, p around q, q around p, and
\* overlapping with all of q inside p and 11 of the 20 vertices of p inside q.
Profiles ==
  { << <<0, 0>>, <<0, 0>> >>,
    << <<ThreshDen, 0>>, <<0, 0>> >>,
    << <<0, 0>>, <<ThreshDen, 0>> >>,
    << <<ThreshDen, 0>>, <<ThreshNum, 0>> >> }

UPairs(nn) == {pr \in Pairs(nn) : pr[1] < pr[2]}

CountsOf(prof, nn) ==
  [pr \in Pairs(nn) |->
     IF pr[1] = pr[2] THEN <<0, ThreshDen>>
     ELSE IF pr[1] < pr[2] THEN prof[pr][1]
     ELSE prof[<<pr[2], pr[1]>>][2]]

\* NPolys polygons of ThreshDen vertices and increasing areas.
Init ==
  \E prof \in [UPairs(NPolys) -> Profiles] :
    CallWith(NPolys, [p \in Polys(NPolys) |-> ThreshDen],
             [p \in Polys(NPolys) |-> p + 1], CountsOf(prof, NPolys))

Next == CombineSimplePolyAreas

Spec == Init /\ [][Next]_vars

\* The program is sequential and always takes its next step.
FairSpec == Spec /\ WF_vars(Next)

\* Two polygons with every combination of vertex counts, areas and
\* PointInside outcomes around the 0.55 threshold.
LensSet == {3, ThreshDen}

CountsFor(len) ==
  {c \in (0 .. len) \X (0 .. len) :
     /\ c[1] + c[2] <= len
     /\ c[2] \in {0, len - c[1]}
     /\ \/ c[1] \in {0, 1, len}
        \/ c[1] * ThreshDen - ThreshNum * len \in (0 - ThreshDen) .. ThreshDen}

\* The convex hull of the two polygons has at least three corners, each a
\* vertex of one polygon that is not strictly inside the other.
Realisable(ln, c01, c10) == (ln[1] - c01[1]) + (ln[0] - c10[1]) >= 3

InitPair ==
  \E ln \in [Polys(2) -> LensSet], ar \in [Polys(2) -> 1 .. MaxArea] :
    \E c01 \in CountsFor(ln[1]), c10 \in CountsFor(ln[0]) :
      /\ Realisable(ln, c01, c10)
      /\ CallWith(2, ln, ar,
                  [pr \in Pairs(2) |->
                    IF pr[1] = pr[2] THEN <<0, ln[pr[1]]>>
                    ELSE IF pr = <<0, 1>> THEN c01 ELSE c10])

SpecPair == InitPair /\ [][Next]_vars

\* -------------------------------------------------------------------- claims

Range(s) == {s[x] : x \in 1 .. Len(s)}

Occurrences(s, p) == Cardinality({x \in 1 .. Len(s) : s[x] = p})

\* Number of times p is the boundary of a returned PolyArea.
AsBoundary(p) == Occurrences(polyareas, p)

RECURSIVE SumHoles(_, _)
SumHoles(q, p) ==
  IF q >= n THEN 0
  ELSE (IF AsBoundary(q) > 0 THEN Occurrences(holes[q], p) ELSE 0)
       + SumHoles(q + 1, p)

\* Number of times p is a hole of a returned PolyArea.
AsHole(p) == SumHoles(0, p)

\* C1: when CombineSimplePolyAreas returns, every input index is the outer
\* boundary of exactly one returned PolyArea or a hole of exactly one, never
\* both, never twice and never absent.
C1_EveryPolygonOnce ==
  pc = "done" => \A p \in Polys(n) : AsBoundary(p) + AsHole(p) = 1

\* The part of C1 the code keeps: no index is output twice or as both.
C1_AtMostOnce ==
  \A p \in Polys(n) : AsBoundary(p) + AsHole(p) <= 1

\* The holes the docstring of _GetHoles describes for boundary a, given the
\* set asg assigned before a is picked.
DirectHoles(a, asg) ==
  {j \in Polys(n) \ (asg \cup {a}) :
     /\ <<a, j>> \in cont
     /\ ~ \E k \in Polys(n) \ (asg \cup {a, j}) :
            <<a, k>> \in cont /\ <<k, j>> \in cont}

\* C2: whenever polygon i is picked as a boundary, the holes attached to it
\* are exactly the polygons unassigned at that moment that i contains with
\* no other polygon unassigned at that moment between i and them.
C2_HolesAreDirect ==
  [][polyareas' # polyareas => Range(holes'[i]) = DirectHoles(i, assigned)]_vars

\* cont is a strict nesting order: transitive, asymmetric, and the containers
\* of a polygon are totally ordered (a forest).
IsNesting ==
  /\ \A p, q \in Polys(n) : <<p, q>> \in cont => <<q, p>> \notin cont
  /\ \A p, q, r \in Polys(n) :
       <<p, q>> \in cont /\ <<q, r>> \in cont => <<p, r>> \in cont
  /\ \A p, q, r \in Polys(n) :
       <<p, r>> \in cont /\ <<q, r>> \in cont /\ p # q
         => <<p, q>> \in cont \/ <<q, p>> \in cont

Depth(p) == Cardinality({q \in Polys(n) : <<q, p>> \in cont})

\* C3: under a strict nesting order a polygon at even depth is output as an
\* outer boundary and a polygon at odd depth as a hole of its immediate
\* container.
C3_EvenOddNesting ==
  (pc = "done" /\ IsNesting) =>
    \A p \in Polys(n) :
      IF Depth(p) % 2 = 0
      THEN AsBoundary(p) = 1 /\ AsHole(p) = 0
      ELSE /\ AsBoundary(p) = 0
           /\ \E q \in Polys(n) :
                /\ <<q, p>> \in cont
                /\ Depth(q) = Depth(p) - 1
                /\ AsBoundary(q) = 1
                /\ p \in Range(holes[q])

\* C5: the assignment loop terminates, runs at most n rounds, and starts no
\* round once all n polygons are assigned.
C5_Terminates ==
  /\ <>(pc = "done")
  /\ [](count <= n)
  /\ [][(pc' = "for" /\ i' = 0 /\ (pc # "for" \/ i # 0))
          => (Cardinality(assigned') < n /\ count' < n)]_vars

C5_Witness ==
  /\ pc = "done"
  /\ count = n
  /\ \E p, q \in Polys(n) : p # q /\ <<p, q>> \in cont /\ <<q, p>> \in cont

\* C6: a round that assigns no polygon is the last round.
C6_NoProgressStops ==
  [][(pc = "for" /\ i = n /\ assigned = before) => pc' = "done"]_vars

\* i passes the containment test over j: at least one vertex of j strictly
\* inside i, not all of them on i, and the inside fraction at least 0.55.
Passes(a, b) ==
  /\ cls[<<a, b>>][1] >= 1
  /\ cls[<<a, b>>][2] # lens[b]
  /\ ~ FracBelow(cls[<<a, b>>][1], lens[b])

\* C4: when i passes the containment test over j and j passes it over i,
\* the polygon with the larger area, and only that one, is the container.
C4_TieBreak ==
  pc # "start" =>
    \A a, b \in Polys(n) :
      (a # b /\ Passes(a, b) /\ Passes(b, a))
        => (<<a, b>> \in cont <=> areas[a] > areas[b])

\* All vertices of k are strictly inside o.
AllInside(o, k) == cls[<<o, k>>] = <<lens[k], 0>>

OuterWithHole(o, k) == polyareas = <<o>> /\ holes[o] = <<k>>

Half == One \div 2

\* The Offset was made from one CCW unit square.
IsUnitSquare ==
  /\ Len(off.faces) = 1
  /\ off.lines = <<>>
  /\ Len(off.faces[1]) = 4
  /\ SubSeq(vmap, 1, 4) = Placed(Rect(1, 1), 1)

\* C8: for an Offset of one CCW unit square, Build(target) with target >= 0.5
\* completes with endtime = 0.5, the four spoke end points merged into the
\* single point (0.5, 0.5), and no next generation.
C8_UnitSquare ==
  (IsUnitSquare /\ target >= Half /\ bpc # "ready") =>
    /\ bpc = "returned"
    /\ off.endtime = Half
    /\ vmap = Placed(Rect(1, 1), 1) \o << <<Half, Half>> >>
    /\ off.next = <<>>

\* The spokes of the Offset and the points Build added to the vmap.
SpokeSet == {AllSpokes(off.faces, 1)[x] : x \in 1 .. Len(AllSpokes(off.faces, 1))}

NewPoints == {vmap'[x] : x \in Len(vmap) + 1 .. Len(vmap')}

StepEnd == IF target < FirstEvents(off, vmap).bestt
           THEN target ELSE FirstEvents(off, vmap).bestt

FaceSurvives ==
  \E x \in 1 .. Len(off.faces) :
    Len(MergeEnds(off.faces[x], StepEnd, vmap, 1, <<>>)) >= 3

\* C10: when a Build step leaves a new face of three or more vertices and
\* target - endtime exceeds the tolerance, a new Offset is made from the new
\* faces and linked as next, Build runs on it with budget target - endtime,
\* and the current generation keeps its endtime; otherwise there is no next
\* generation.
C10_NextGeneration ==
  [][bpc = "ready" =>
       IF FaceSurvives /\ target - StepEnd > TOL
       THEN /\ off'.next # <<>>
            /\ off'.next[1].faces # <<>>
            /\ off'.next[1].endtime # InitEndtime
            /\ off'.endtime = StepEnd
            /\ calls' >= 2
       ELSE off'.next = <<>>]_vars

\* The generations from o on, through next.
RECURSIVE Chain(_)
Chain(o) == <<o>> \o (IF o.next = <<>> THEN <<>> ELSE Chain(o.next[1]))

\* The sum of the endtimes of the first k generations.
RECURSIVE Cumulative(_, _)
Cumulative(chain, k) ==
  IF k = 0 THEN 0 ELSE Cumulative(chain, k - 1) + chain[k].endtime

\* The number of face vertices of a generation, from face k on.
RECURSIVE VertexCount(_, _)
VertexCount(faces, k) ==
  IF k > Len(faces) THEN 0 ELSE Len(faces[k]) + VertexCount(faces, k + 1)

Ends == {"returned", "TypeError", "IndexError"}

\* C12: Build ends for every Offset and target, and the number of nested
\* invocations is bounded: the call about to be made ends after one
\* invocation, short of the recursion limit, and so did the call made, also
\* when the first event is at time 0.
C12_Terminates ==
  /\ bpc = "ready" => (Built.status \in Ends /\ Built.calls = 1)
  /\ bpc # "ready" => (bpc \in Ends /\ calls = 1)

\* Build ended on an Offset whose first event is at time 0, with a positive
\* target.
C12_Witness ==
  /\ bpc \in {"returned", "TypeError"}
  /\ off.faces # <<>>
  /\ Abs(FirstEvents(off, vmap).bestt) <= TOL
  /\ target > TOL
  /\ off.endtime = FirstEvents(off, vmap).bestt
  /\ calls = 1

\* ----- the methods of Offset, called alone

\* C13: for an edge event within one face SplitFace returns the list of
\* faces with that face replaced by two cycles, one at the face's index and
\* one appended, the other faces unchanged and every vertex of the split face
\* in one of the two cycles.
C13_SplitFace ==
  call.fn = "SplitFace" =>
    /\ call.ret.status = "ok"
    /\ Len(call.ret.ans) = Len(call.arg[1]) + 1
    /\ \A x \in 1 .. Len(call.arg[1]) :
         x # call.arg[2].spoke[1] + 1 => call.ret.ans[x] = call.arg[1][x]
    /\ Range(call.arg[1][call.arg[2].spoke[1] + 1].vs)
         \subseteq (Range(call.ret.ans[call.arg[2].spoke[1] + 1].vs)
                      \cup Range(call.ret.ans[Len(call.ret.ans)].vs))

\* The coordinates of the vertex cycle a call of FaceAtSpokeEnds returned.
Cycle(c) == [x \in 1 .. Len(c.ret) |-> vmap[c.ret[x] + 1]]

\* C14: the cycle FaceAtSpokeEnds returns has no two cyclically consecutive
\* vertices, last and first included, equal within the tolerance, unless it
\* is a single vertex.
C14_NoConsecutiveEqual ==
  call.fn = "FaceAtSpokeEnds" =>
    \/ Len(call.ret) = 1
    \/ \A x \in 1 .. Len(call.ret) :
         ~ ApproxEqPts(Cycle(call)[x], Cycle(call)[(x % Len(call.ret)) + 1])

\* C15: a second call of FaceAtSpokeEnds on the same face at the same time
\* returns a cycle of the same length with the same coordinates position by
\* position, and a call changes neither the spokes nor a coordinate already
\* in the table: it only appends points.
C15_SameTwice ==
  [][call'.fn = "FaceAtSpokeEnds" =>
       /\ off' = off
       /\ SubSeq(vmap', 1, Len(vmap)) = vmap
       /\ Range(call'.ret) = Len(vmap) .. Len(vmap') - 1
       /\ (call.fn = "FaceAtSpokeEnds" /\ call'.arg = call.arg) =>
            /\ Len(call'.ret) = Len(call.ret)
            /\ \A x \in 1 .. Len(call.ret) :
                 vmap'[call'.ret[x] + 1] = vmap'[call.ret[x] + 1]]_vars

\* FaceAtSpokeEnds was called twice on one face at one time and returned
\* cycles of two or more vertices.
C15_Witness ==
  /\ call.fn = "FaceAtSpokeEnds"
  /\ prevcall.fn = "FaceAtSpokeEnds"
  /\ call.arg = prevcall.arg
  /\ Len(call.ret) >= 2
  /\ call.ret # prevcall.ret

\* The spoke NextSpokeEvents was called on, the one before it and the one
\* after it in its face.
CalledSpoke == off.faces[call.arg[1] + 1][call.arg[2] + 1]

PrevSpoke ==
  off.faces[call.arg[1] + 1]
    [((call.arg[2] - 1) % Len(off.faces[call.arg[1] + 1])) + 1]

NextSpoke ==
  off.faces[call.arg[1] + 1]
    [((call.arg[2] + 1) % Len(off.faces[call.arg[1] + 1])) + 1]

\* All events of the called spoke: its vertex event with the next spoke and,
\* if it is reflex, its edge events with the edges of the other spokes.
FoundEvents ==
  Range(VertexEvent(CalledSpoke, NextSpoke, vmap))
  \cup (IF CalledSpoke.is_reflex
        THEN UNION {Range(EdgeEvent(CalledSpoke, other, off.faces, vmap)) :
                      other \in SpokeSet \ {CalledSpoke, PrevSpoke}}
        ELSE {})

MinTime(evs) == CHOOSE t \in {ev.time : ev \in evs} : \A ev \in evs : t <= ev.time

\* The result ret holds the minimum time of the events evs and exactly the
\* events within the tolerance of it.
KeepsAll(evs, ret) ==
  IF evs = {}
  THEN ret = [bestt |-> NoEventTime, bestv |-> <<>>, beste |-> <<>>]
  ELSE /\ ret.bestt = MinTime(evs)
       /\ Range(ret.bestv) \cup Range(ret.beste)
            = {ev \in evs : Abs(ev.time - MinTime(evs)) < TOL}

\* C16: NextSpokeEvents returns the minimum time over all events found for
\* the spoke and every found event within the tolerance of that minimum.
C16_KeepsSimultaneous ==
  call.fn = "NextSpokeEvents" => KeepsAll(FoundEvents, call.ret)

\* C19: MakeNewFaces returns one vertex cycle per face of the Offset, in face
\* order, each a list: the cycle FaceAtSpokeEnds made for that face.
C19_ListOfFaces ==
  [][call'.fn = "MakeNewFaces" =>
       /\ Len(call'.ret) = Len(off.faces)
       /\ \A x \in 1 .. Len(call'.ret) :
            /\ call'.ret[x].islist
            /\ [y \in 1 .. Len(call'.ret[x].vs) |-> vmap'[call'.ret[x].vs[y] + 1]]
                 = MergeEnds(off.faces[x], call'.arg[1], vmap, 1, <<>>)]_vars

\* C20: NextSpokeEvents returns no edge event for a spoke that is not
\* reflex; every edge event returned has the called spoke as its spoke and
\* the edge of a spoke other than the called one and the one before it; and
\* at most one vertex event is returned, with the next spoke of the face.
C20_EventShape ==
  call.fn = "NextSpokeEvents" =>
    /\ ~ CalledSpoke.is_reflex => call.ret.beste = <<>>
    /\ \A ev \in Range(call.ret.beste) :
         /\ ~ ev.is_vertex_event
         /\ ev.spoke = <<CalledSpoke.face, CalledSpoke.index>>
         /\ ev.other # <<CalledSpoke.face, CalledSpoke.index>>
         /\ ev.other # <<PrevSpoke.face, PrevSpoke.index>>
    /\ Len(call.ret.bestv) <= 1
    /\ \A ev \in Range(call.ret.bestv) :
         /\ ev.is_vertex_event
         /\ ev.spoke = <<CalledSpoke.face, CalledSpoke.index>>
         /\ ev.other = <<NextSpoke.face, NextSpoke.index>>

\* NextSpokeEvents returned edge events for a reflex spoke.
C20_Witness ==
  /\ call.fn = "NextSpokeEvents"
  /\ CalledSpoke.is_reflex
  /\ call.ret.beste # <<>>


\* ----- model.py claims (SpecModel)

\* C17: the face list and the color list of the Model stay parallel: every
\* call of PolyAreaToModel, _ExtrudePoly or AddOffsetFacesToModel appends as
\* many colors as faces, so len(faces) = len(colors) after it.
C17_Parallel ==
  [][/\ Len(mdl'.faces) = Len(mdl'.colors)
     /\ Len(mdl'.faces) - Len(mdl.faces) = Len(mdl'.colors) - Len(mdl.colors)]_vars

\* _ExtrudePoly appended three faces and AddOffsetFacesToModel four more.
C17_Witness ==
  /\ prevcall.fn = "_ExtrudePoly"
  /\ prevcall.arg[1] = <<0, 1, 2>>
  /\ call.fn = "AddOffsetFacesToModel"
  /\ call.arg[1] = ToSegment(1)
  /\ Len(mdl.faces) = 3 + 4
  /\ Len(mdl.colors) = 3 + 4

\* The generations reachable from o, each as often as it is linked.
RECURSIVE GenerationsOf(_)
RECURSIVE GenerationsIn(_, _)
GenerationsIn(os, k) ==
  IF k > Len(os) THEN <<>> ELSE GenerationsOf(os[k]) \o GenerationsIn(os, k + 1)

GenerationsOf(o) == <<o>> \o GenerationsIn(o.inneroffsets, 1)

\* The number of edges of the faces of facespokes from face k on.
RECURSIVE EdgesFrom(_, _)
EdgesFrom(facespokes, k) ==
  IF k > Len(facespokes) THEN 0
  ELSE Len(facespokes[k]) + EdgesFrom(facespokes, k + 1)

\* The number of edges of the generations of gens with nonzero endtime, from
\* generation k on.
RECURSIVE EdgeCount(_, _)
EdgeCount(gens, k) ==
  IF k > Len(gens) THEN 0
  ELSE (IF gens[k].endtime # 0 THEN EdgesFrom(gens[k].facespokes, 1) ELSE 0)
       + EdgeCount(gens, k + 1)

\* The triangle or quad the claim gives edge x of face f.
EdgeFace(f, x) ==
  LET v0 == f[x].origin
      v1 == f[(x % Len(f)) + 1].origin
      v2 == f[(x % Len(f)) + 1].dest
      v3 == f[x].dest
  IN  IF v2 = v3 THEN <<v0, v1, v2>> ELSE <<v0, v1, v2, v3>>

EdgeFaces(gens) ==
  UNION {UNION {{EdgeFace(gens[k].facespokes[j], x) :
                   x \in DOMAIN gens[k].facespokes[j]} :
                j \in DOMAIN gens[k].facespokes} :
           k \in {k \in DOMAIN gens : gens[k].endtime # 0}}

\* C18: AddOffsetFacesToModel, called on a root offset and an empty Model,
\* processes every generation reachable from the root once, and emits for
\* every generation with nonzero endtime one face per edge of every face, a
\* triangle when the two inner endpoints are the same point and a quad
\* otherwise; a generation with endtime 0 emits no face.
C18_EveryGeneration ==
  (call.fn = "AddOffsetFacesToModel" /\ prevcall.fn = "none") =>
    /\ call.ret.status = "ok"
    /\ Len(mdl.faces) = EdgeCount(GenerationsOf(call.arg[1]), 1)
    /\ {mdl.faces[k] : k \in DOMAIN mdl.faces} = EdgeFaces(GenerationsOf(call.arg[1]))

\* The same on the objects that have the attributes the function reads.
C18_OnGenerations ==
  (call.fn = "AddOffsetFacesToModel" /\ call.arg[1] \in Generations) =>
    (prevcall.fn = "none" => C18_EveryGeneration)


\* ----- Build with edge events (SpecOffset)

\* The first events of the Build step about to be made.
StepEvents == FirstEvents(off, vmap)

CrossFace(ev) == ev.spoke[1] # ev.other[1]

\* Build's step from events best left what adv, one advance of every face to
\* their time, gives: its points in the vmap, and its faces as the new faces
\* when all the edge events cross faces.
AdvancedAs(best, adv) ==
  /\ Len(vmap') = Len(adv.vmap)
  /\ (\A k \in 1 .. Len(best.beste) : CrossFace(best.beste[k]))
       => newfaces' = adv.ans

\* C21: in a Build step whose simultaneous events hold k >= 1 edge events,
\* every face is advanced to endtime once: the points appended to the vmap are
\* those of one advance of the faces whatever k is, and when all the edge
\* events cross faces the new faces are those of one advance, no face added.
C21_AdvancedOnce ==
  [][bpc = "ready" =>
       \A best \in {StepEvents} :
         (best.beste # <<>> /\ ~ TargetFirst(target, best.bestt)) =>
           \A adv \in {MakeNewFaces(Self(off, vmap), best.bestt)} :
             AdvancedAs(best, adv)]_vars


\* ----- the containment relation (SpecPair)

\* C22: the relation computed by _Contains is irreflexive and antisymmetric
\* for all counts and areas: no polygon contains itself and no two polygons
\* contain each other, also when an inside fraction is exactly 0.55.
C22_Antisymmetric ==
  pc # "start" =>
    \A a, b \in Polys(n) :
      /\ ~ _Contains(a, a, areas, lens, cls)
      /\ ~ (/\ a # b
            /\ _Contains(a, b, areas, lens, cls)
            /\ _Contains(b, a, areas, lens, cls)
            /\ <<a, b>> \in cont
            /\ <<b, a>> \in cont)


\* ----- RegionToPolyAreas (SpecRegion)

\* The directed edges of the faces.
FaceEdges(faces) ==
  UNION {{<<faces[k][x], faces[k][(x % Len(faces[k])) + 1]>> :
            x \in 1 .. Len(faces[k])} : k \in 1 .. Len(faces)}

\* C23: RegionToPolyAreas puts a directed edge (vs, ve) of the input faces in
\* the set of boundary edges if and only if the reversed edge (ve, vs) is not
\* an edge of any input face.
C23_BoundaryEdges ==
  call.fn = "RegionToPolyAreas" =>
    call.ret.boundary_edges
      = {edge \in FaceEdges(call.arg[1]) :
           <<edge[2], edge[1]>> \notin FaceEdges(call.arg[1])}

====
